---- MODULE Spec2Model ----
(***************************************************************************)
(* A model of the Raft member of clustering/generic/raft_core.tcc, driven  *)
(* by the cluster harness of unittest/clustering_raft.cc.                  *)
(*                                                                         *)
(* The three RPC handlers, update_term, update_commit_index,               *)
(* become_follower and the election setup of leader_coro are translated    *)
(* from raft_core.tcc.  The log operations (declared in raft_core.hpp) and *)
(* the leader side (vote counting, replication, commit advancement, client *)
(* proposals, configuration changes), whose code is not among the source   *)
(* files, follow spec.md sections 4.1, 4.2.4, 4.2.5 and 4.3.               *)
(*                                                                         *)
(* An RPC is a request in flight.  Delivering it runs the handler under    *)
(* the member mutex as one step; the reply returns to the coroutine that   *)
(* sent the request, which handles it only if it is still running (same    *)
(* role, same term), or the reply is lost.  A failed guarantee() aborts    *)
(* the member; it stays down until it is re-created from the state last    *)
(* written to the storage adapter.                                         *)
(***************************************************************************)
EXTENDS Integers, Sequences, FiniteSets, TLC

\* ---------------------------------------------------------------- bounds
\* The cluster from its construction (Spec).
NumMembers == 3
NumCandidates == 2
MaxTerm == 2
MaxIndex == 1
MaxMsgs == 1
MaxRestarts == 1
\* Replication under the first leader (SpecRepl).
ReplMaxIndex == 4
ReplMaxInFlight == 1
\* The election as raft_core.tcc codes it (SpecElect).
ElectMaxTerm == 2
ElectMaxMsgs == 2
\* A membership change (SpecConfig).
ConfMaxTerm == 2
ConfMaxMsgs == 1
\* Requests overtaking one another, and a second election (SpecLag).
LagMaxIndex == 2
LagMaxTerm == 2
LagMaxMsgs == 2
\* The first leader and a second election (SpecFail).
FailMaxIndex == 2
FailMaxTerm == 2
FailMaxMsgs == 1

\* ------------------------------------------------------------- constants
Nil == 0
\* The change the state machine refuses in every state.
BadChange == 3
\* A change that a leader accepts and that the other members refuse.
RefusedChange == 9
\* The configuration changes of one membership change: the joint
\* configuration C_old,new and the new configuration C_new.
JointChange == -1
NewConfigChange == -2

Members == 1..NumMembers

\* The members whose election timer may expire.
Candidates == 1..NumCandidates

MinOf(a, b) == IF a <= b THEN a ELSE b

MaxOf(a, b) == IF a >= b THEN a ELSE b

SetMin(S) == CHOOSE x \in S : \A y \in S : x <= y

IsMajority(S) == 2 * Cardinality(S) > NumMembers

\* The voting members after the membership change.
NewMembers == {NumMembers}

\* ------------------------------------------------------------------- log
get_latest_index(log) == log.prev_log_index + Len(log.entries)

ValidTermIndex(log, i) == i >= log.prev_log_index /\ i <= get_latest_index(log)

ValidEntryIndex(log, i) == i > log.prev_log_index /\ i <= get_latest_index(log)

get_entry_term(log, i) ==
    IF i = log.prev_log_index THEN log.prev_log_term
    ELSE log.entries[i - log.prev_log_index].term

get_entry(log, i) == log.entries[i - log.prev_log_index]

delete_entries_from(log, i) ==
    [log EXCEPT !.entries = SubSeq(@, 1, i - log.prev_log_index - 1)]

delete_entries_to(log, i) ==
    [prev_log_index |-> i,
     prev_log_term |-> get_entry_term(log, i),
     entries |-> SubSeq(log.entries, i - log.prev_log_index + 1, Len(log.entries))]

\* The entries of `from` at indexes lo..latest, appended to `log`.
append_from(log, from, lo) ==
    [log EXCEPT !.entries =
        @ \o SubSeq(from.entries, lo - from.prev_log_index, Len(from.entries))]

\* --------------------------------------------------------- state machine
\* state_t::consider_change, a predicate of the state and the change: a
\* state accepts a change that it has not applied yet, and BadChange never.
consider_change(state, change) ==
    /\ change # BadChange
    /\ \A k \in 1..Len(state) : state[k] # change

\* interface->consider_proposed_change, as the member that receives the
\* proposed change of a leader answers it.
consider_proposed_change(change) ==
    change # BadChange /\ change # RefusedChange

\* --------------------------------------------------------------- members
EmptyLog == [prev_log_index |-> 0, prev_log_term |-> 0, entries |-> <<>>]

make_initial == [current_term |-> 0, voted_for |-> Nil, log |-> EmptyLog,
                 snapshot |-> <<>>]

NoIndex == [p \in Members |-> 0]

\* A member constructed from a persistent state.  Its mailbox is new: `session`
\* tells the members constructed under one id apart.  `spawned`: become_candidate
\* has spawned leader_coro, which has not run its setup yet.
NewMember(pstate, session) ==
    [ps |-> pstate,
     session |-> session,
     mode |-> "follower",
     spawned |-> FALSE,
     commit_index |-> pstate.log.prev_log_index,
     last_applied |-> pstate.log.prev_log_index,
     state_machine |-> pstate.snapshot,
     this_term_leader_id |-> Nil,
     votes |-> {},
     replied |-> {},
     next_index |-> NoIndex,
     match_index |-> NoIndex]

VARIABLES
    raft,        \* raft[m]: the raft_member_t of member m
    stored,      \* stored[m]: member_info_t::stored_state
    live,        \* live[m]: "alive", or the guarantee that aborted the member
    msgs,        \* the requests in flight
    next_change, \* the next change a client proposes
    restarts,    \* how many members were killed and re-created
    leaders,     \* <<term, member>> for every election won
    applied,     \* <<index, entry>> for every entry a member applied
    committed,   \* [index, entry, term] for every entry a leader committed
    proposed     \* [index, term, change] for every entry a leader appended

vars == <<raft, stored, live, msgs, next_change, restarts, leaders, applied,
          committed, proposed>>

\* ------------------------------------------------------- member methods
update_term(s, new_term) ==
    [s EXCEPT !.ps.current_term = new_term,
              !.ps.voted_for = Nil,
              !.this_term_leader_id = Nil]

\* leader_coro has returned from its pmap without being interrupted: every
\* send_request_vote_rpc to another member has returned (a call of the
\* member to itself either fails or ends the member), and mode is still
\* candidate.
coro_exited(s) ==
    s.mode = "candidate" /\ Cardinality(s.replied) = NumMembers - 1

\* become_follower when leader_coro is there to be interrupted: "This will
\* interrupt leader_coro() and block until it exits".
become_follower(s) ==
    [s EXCEPT !.mode = "follower", !.votes = {}, !.replied = {},
              !.next_index = NoIndex, !.match_index = NoIndex]

\* "If RPC request or response contains term T > currentTerm: set
\* currentTerm = T, convert to follower"
higher_term(s, term) ==
    IF term > s.ps.current_term
    THEN LET u == update_term(s, term)
         IN IF u.mode # "follower" THEN become_follower(u) ELSE u
    ELSE s

\* The term update of a handler calls become_follower after leader_coro has
\* exited: nothing has reset mode, and guarantee(mode == follower) fails.
drain_fails(s, term) == term > s.ps.current_term /\ coro_exited(s)

\* What a method leaves behind: the member, the guarantee that failed (if
\* any) and the entries applied on the way.
Ctx(s) == [s |-> s, failed |-> "", applied |-> {}]

Failed(c, what) == [c EXCEPT !.failed = what]

\* update_commit_index without "Take a snapshot as described in Section 7".
update_commit_index_unsnapshotted(c, new_commit_index) ==
    IF ~(new_commit_index > c.s.commit_index)
    THEN Failed(c, "guarantee(new_commit_index > commit_index)")
    ELSE IF \E i \in (c.s.last_applied + 1)..new_commit_index :
                ~ValidEntryIndex(c.s.ps.log, i)
    THEN Failed(c, "log.get_entry out of range")
    ELSE [c EXCEPT
            !.s.commit_index = new_commit_index,
            !.s.last_applied = new_commit_index,
            !.s.state_machine = @ \o
                [k \in 1..(new_commit_index - c.s.last_applied) |->
                    get_entry(c.s.ps.log, c.s.last_applied + k).change],
            !.applied = @ \cup
                {<<i, get_entry(c.s.ps.log, i)>> :
                    i \in (c.s.last_applied + 1)..new_commit_index}]

update_commit_index(c, new_commit_index) ==
    LET s == c.s
        log == s.ps.log
        todo == (s.last_applied + 1)..new_commit_index
        la == IF s.last_applied < new_commit_index
              THEN new_commit_index ELSE s.last_applied
    IN  IF ~(new_commit_index > s.commit_index)
        THEN Failed(c, "guarantee(new_commit_index > commit_index)")
        ELSE IF \E i \in todo : ~ValidEntryIndex(log, i)
        THEN Failed(c, "log.get_entry out of range")
        ELSE IF \E i \in todo :
                    ~consider_change(
                        s.state_machine \o
                            [k \in 1..(i - s.last_applied - 1) |->
                                get_entry(log, s.last_applied + k).change],
                        get_entry(log, i).change)
        THEN Failed(c, "guarantee(state_machine.consider_change)")
        ELSE
        LET sm == s.state_machine \o
                  [k \in 1..(la - s.last_applied) |->
                        get_entry(log, s.last_applied + k).change]
            s1 == [s EXCEPT !.commit_index = new_commit_index,
                            !.last_applied = la,
                            !.state_machine = sm]
            did == {<<i, get_entry(log, i)>> : i \in todo}
        IN  IF la > log.prev_log_index
            THEN IF ~ValidTermIndex(log, la)
                 THEN Failed(c, "log.delete_entries_to out of range")
                 ELSE [c EXCEPT !.s = [s1 EXCEPT !.ps.snapshot = sm,
                                         !.ps.log = delete_entries_to(log, la)],
                                !.applied = @ \cup did]
            ELSE [c EXCEPT !.s = s1, !.applied = @ \cup did]

\* ----------------------------------------------------------- RPC handlers
\* What a handler returns: the member after it, the guarantee that failed,
\* the entries applied, whether write_persistent_state ran, and the reply.
Reply(c, persist, outcome) ==
    [s |-> c.s, failed |-> c.failed, applied |-> c.applied,
     persist |-> persist, term_out |-> c.s.ps.current_term,
     outcome |-> outcome]

Abort(c) == Reply(c, FALSE, "none")

this_term_leader(c, leader_id) ==
    IF c.s.this_term_leader_id = Nil
    THEN [c EXCEPT !.s.this_term_leader_id = leader_id]
    ELSE IF c.s.this_term_leader_id = leader_id THEN c
    ELSE Failed(c, "guarantee(this_term_leader_id == leader_id)")

\* The end of a handler that changed the member: write_persistent_state and
\* the reply, unless a guarantee failed on the way.
Finish(c, outcome) ==
    IF c.failed # "" THEN Abort(c) ELSE Reply(c, TRUE, outcome)

\* The log `entries` of an AppendEntries request.
rpc_entries(msg) ==
    [prev_log_index |-> msg.prev_log_index,
     prev_log_term |-> msg.prev_log_term,
     entries |-> msg.entries]

\* "If leaderCommit > commitIndex, set commitIndex = min(leaderCommit, index
\* of last new entry)": one round of the while loop.
commit_round(c, leader_commit, latest) ==
    IF c.failed = "" /\ leader_commit > c.s.commit_index
    THEN update_commit_index(c, MinOf(leader_commit, latest))
    ELSE c

\* The leader check and the reply of on_append_entries_rpc.
ae_leader(c, msg) ==
    Finish(IF c.failed = "" THEN this_term_leader(c, msg.from) ELSE c, "success")

\* The commit loop of on_append_entries_rpc: it runs again while
\* leader_commit > commit_index.
ae_commit(c, msg, latest) ==
    ae_leader(commit_round(commit_round(c, msg.leader_commit, latest),
                           msg.leader_commit, latest),
              msg)

\* "If an existing entry conflicts with a new one (same index but different
\* terms), delete the existing entry and all that follow it"
delete_conflicts(log, entries) ==
    LET conflicts ==
            {i \in (entries.prev_log_index + 1)..
                        MinOf(get_latest_index(log), get_latest_index(entries)) :
                get_entry_term(log, i) # get_entry_term(entries, i)}
    IN  IF conflicts = {} THEN log
        ELSE delete_entries_from(log, SetMin(conflicts))

\* "Append any new entries not already in the log"
append_new(log, entries) ==
    IF get_latest_index(log) + 1 <= get_latest_index(entries)
    THEN append_from(log, entries, get_latest_index(log) + 1)
    ELSE log

\* on_append_entries_rpc from the consistency check on.
ae_accept(s, msg, entries) ==
    IF entries.prev_log_index > get_latest_index(s.ps.log)
    THEN Reply(Ctx(s), FALSE, "retry")
    ELSE IF ~ValidTermIndex(s.ps.log, entries.prev_log_index)
    THEN Abort(Failed(Ctx(s), "log.get_entry_term out of range"))
    ELSE IF get_entry_term(s.ps.log, entries.prev_log_index) # entries.prev_log_term
    THEN Reply(Ctx(s), FALSE, "retry")
    ELSE ae_commit(
            Ctx([s EXCEPT !.ps.log =
                    append_new(delete_conflicts(s.ps.log, entries), entries)]),
            msg, get_latest_index(entries))

\* ae_consider with a rejection that has appended the entries before it
\* replies.
ae_consider_touching(s, msg, entries) ==
    IF s.mode = "leader"
    THEN Abort(Failed(Ctx(s), "guarantee(mode != leader)"))
    ELSE IF \E k \in 1..Len(entries.entries) :
                ~consider_proposed_change(entries.entries[k].change)
    THEN Reply(Ctx([s EXCEPT !.ps.log.entries = @ \o entries.entries]),
               FALSE, "rejected")
    ELSE ae_accept(s, msg, entries)

\* on_append_entries_rpc from the leader sanity check to the proposed changes.
ae_consider(s, msg, entries) ==
    LET el == get_latest_index(entries)
        lc == msg.leader_commit
    IN
    IF s.mode = "leader"
    THEN Abort(Failed(Ctx(s), "guarantee(mode != leader)"))
    ELSE IF \E i \in (MinOf(el, lc) + 1)..el : ~ValidEntryIndex(entries, i)
    THEN Abort(Failed(Ctx(s), "entries.get_entry out of range"))
    ELSE IF \E i \in (MinOf(el, lc) + 1)..el :
                ~consider_proposed_change(get_entry(entries, i).change)
    THEN Reply(Ctx(s), FALSE, "rejected")
    ELSE ae_accept(s, msg, entries)

\* ae_term without the stale term check, the step down of a candidate and
\* the leader sanity check.
ae_term_unguarded(s, msg) == ae_accept(s, msg, rpc_entries(msg))

\* on_append_entries_rpc after the term update.
ae_term(s, msg) ==
    IF msg.term < s.ps.current_term THEN Reply(Ctx(s), FALSE, "retry")
    ELSE IF coro_exited(s)
    THEN Abort(Failed(Ctx(s), "guarantee(mode == follower)"))
    ELSE ae_consider(IF s.mode = "candidate" THEN become_follower(s) ELSE s,
                     msg, rpc_entries(msg))

on_append_entries_rpc(s0, msg) ==
    IF drain_fails(s0, msg.term)
    THEN Abort(Failed(Ctx(s0), "guarantee(mode == follower)"))
    ELSE ae_term(higher_term(s0, msg.term), msg)

\* rv_term without the comparison of the logs.
rv_term_any_log(s, msg) ==
    IF msg.term < s.ps.current_term THEN Reply(Ctx(s), FALSE, "denied")
    ELSE IF msg.from = msg.to
    THEN Abort(Failed(Ctx(s), "guarantee(candidate_id != member_id)"))
    ELSE IF s.mode # "follower" /\ s.ps.voted_for # msg.to
    THEN Abort(Failed(Ctx(s), "guarantee(voted_for == member_id)"))
    ELSE IF s.ps.voted_for # Nil /\ s.ps.voted_for # msg.from
    THEN Reply(Ctx(s), FALSE, "denied")
    ELSE Reply(Ctx([s EXCEPT !.ps.voted_for = msg.from]), TRUE, "granted")

\* rv_term with the logs compared by the term of their last entries only.
rv_term_by_term(s, msg) ==
    IF msg.term < s.ps.current_term THEN Reply(Ctx(s), FALSE, "denied")
    ELSE IF msg.from = msg.to
    THEN Abort(Failed(Ctx(s), "guarantee(candidate_id != member_id)"))
    ELSE IF s.mode # "follower" /\ s.ps.voted_for # msg.to
    THEN Abort(Failed(Ctx(s), "guarantee(voted_for == member_id)"))
    ELSE IF s.ps.voted_for # Nil /\ s.ps.voted_for # msg.from
    THEN Reply(Ctx(s), FALSE, "denied")
    ELSE IF msg.last_log_term
                < get_entry_term(s.ps.log, get_latest_index(s.ps.log))
    THEN Reply(Ctx(s), FALSE, "denied")
    ELSE Reply(Ctx([s EXCEPT !.ps.voted_for = msg.from]), TRUE, "granted")

\* on_request_vote after the term update.
rv_term(s, msg) ==
    LET my_last == get_latest_index(s.ps.log)
        candidate_is_at_least_as_up_to_date ==
            \/ msg.last_log_term > get_entry_term(s.ps.log, my_last)
            \/ /\ msg.last_log_term = get_entry_term(s.ps.log, my_last)
               /\ msg.last_log_index >= my_last
    IN
    IF msg.term < s.ps.current_term THEN Reply(Ctx(s), FALSE, "denied")
    ELSE IF msg.from = msg.to
    THEN Abort(Failed(Ctx(s), "guarantee(candidate_id != member_id)"))
    ELSE IF s.mode # "follower" /\ s.ps.voted_for # msg.to
    THEN Abort(Failed(Ctx(s), "guarantee(voted_for == member_id)"))
    ELSE IF s.ps.voted_for # Nil /\ s.ps.voted_for # msg.from
    THEN Reply(Ctx(s), FALSE, "denied")
    ELSE IF ~candidate_is_at_least_as_up_to_date
    THEN Reply(Ctx(s), FALSE, "denied")
    ELSE Reply(Ctx([s EXCEPT !.ps.voted_for = msg.from]), TRUE, "granted")

on_request_vote(s0, msg) ==
    IF drain_fails(s0, msg.term)
    THEN Abort(Failed(Ctx(s0), "guarantee(mode == follower)"))
    ELSE rv_term(higher_term(s0, msg.term), msg)

\* "Discard the entire log", "Reset state machine using snapshot contents",
\* the leader check and the reply of on_install_snapshot.
is_install(s, msg) ==
    Finish(this_term_leader(
                Ctx([s EXCEPT !.ps.log.entries = <<>>,
                              !.state_machine = s.ps.snapshot,
                              !.commit_index = s.ps.log.prev_log_index,
                              !.last_applied = s.ps.log.prev_log_index]),
                msg.from),
           "ok")

\* is_needed without its two returns: every snapshot of the current term
\* replaces the log and the state machine.
is_needed_always(s, msg) == is_install(s, msg)

\* on_install_snapshot after "Save snapshot file": is the snapshot needed?
is_needed(s, msg) ==
    IF msg.last_included_index <= s.ps.log.prev_log_index
    THEN Reply(Ctx(s), FALSE, "ok")
    ELSE IF /\ msg.last_included_index <= get_latest_index(s.ps.log)
            /\ get_entry_term(s.ps.log, msg.last_included_index)
                    = msg.last_included_term
    THEN Reply(Ctx(s), FALSE, "ok")
    ELSE is_install(s, msg)

\* is_term without "Reply immediately if term < currentTerm".
is_term_unchecked(s, msg) ==
    is_needed([s EXCEPT !.ps.snapshot = msg.snapshot,
                        !.ps.log.prev_log_index = msg.last_included_index,
                        !.ps.log.prev_log_term = msg.last_included_term],
              msg)

\* on_install_snapshot after the term update; "Save snapshot file".
is_term(s, msg) ==
    IF msg.term < s.ps.current_term THEN Reply(Ctx(s), FALSE, "ok")
    ELSE is_needed([s EXCEPT !.ps.snapshot = msg.snapshot,
                             !.ps.log.prev_log_index = msg.last_included_index,
                             !.ps.log.prev_log_term = msg.last_included_term],
                   msg)

on_install_snapshot(s0, msg) ==
    IF drain_fails(s0, msg.term)
    THEN Abort(Failed(Ctx(s0), "guarantee(mode == follower)"))
    ELSE is_term(higher_term(s0, msg.term), msg)

Handle(s, msg) ==
    IF msg.type = "AE" THEN on_append_entries_rpc(s, msg)
    ELSE IF msg.type = "RV" THEN on_request_vote(s, msg)
    ELSE on_install_snapshot(s, msg)

\* ------------------------------------------------------ the sender's side
\* The reply of `msg` as the coroutine of its sender sees it.
on_reply(s, msg, r) ==
    IF r.term_out > s.ps.current_term
    THEN higher_term(s, r.term_out)
    ELSE IF msg.type = "RV"
    THEN [s EXCEPT !.votes = IF r.outcome = "granted" THEN @ \cup {msg.to} ELSE @,
                   !.replied = @ \cup {msg.to}]
    ELSE IF msg.type = "AE"
    THEN IF r.outcome = "success"
         THEN LET n == msg.prev_log_index + Len(msg.entries)
              IN [s EXCEPT !.match_index[msg.to] = n, !.next_index[msg.to] = n + 1]
         ELSE IF r.outcome = "retry"
         THEN [s EXCEPT !.next_index[msg.to] = IF @ > 1 THEN @ - 1 ELSE @]
         ELSE s
    ELSE s

\* Whether the coroutine that sent `msg` is still there for the reply.
Waiting(s, msg) ==
    /\ s.session = msg.session
    /\ s.ps.current_term = msg.term
    /\ s.mode = (IF msg.type = "RV" THEN "candidate" ELSE "leader")

\* ---------------------------------------------------------- configuration
\* The configurations a configuration change brings.
ConfigsOf(change) ==
    IF change = JointChange THEN {Members, NewMembers}
    ELSE IF change = NewConfigChange THEN {NewMembers}
    ELSE {}

\* The positions of the configuration changes in a sequence of changes.
ConfigChanges(changes) ==
    {k \in 1..Len(changes) : ConfigsOf(changes[k]) # {}}

\* The committed configuration: the most recent configuration change up to
\* commit_index, or the initial configuration.
CommittedConfigs(s) ==
    IF ConfigChanges(s.state_machine) = {} THEN {Members}
    ELSE ConfigsOf(s.state_machine[
            CHOOSE k \in ConfigChanges(s.state_machine) :
                \A j \in ConfigChanges(s.state_machine) : j <= k])

\* The configuration entries of the log.
PendingConfigs(s) ==
    UNION {ConfigsOf(s.ps.log.entries[k].change) :
                k \in 1..Len(s.ps.log.entries)}

ActiveConfigs(s) == CommittedConfigs(s) \cup PendingConfigs(s)

\* Quorum with the newest configuration only.
QuorumOfNewest(s, S) ==
    IF NewMembers \in ActiveConfigs(s)
    THEN 2 * Cardinality(S \cap NewMembers) > Cardinality(NewMembers)
    ELSE IsMajority(S)

\* S holds a majority of the voting members of every active configuration.
Quorum(s, S) ==
    \A cfg \in ActiveConfigs(s) :
        2 * Cardinality(S \cap cfg) > Cardinality(cfg)

\* "When C_new commits, any member not in C_new steps down"
step_down(s, m) ==
    IF m \in UNION ActiveConfigs(s) THEN s ELSE become_follower(s)

\* ---------------------------------------------------------------- actions
Init ==
    /\ raft = [m \in Members |-> NewMember(make_initial, 0)]
    /\ stored = [m \in Members |-> make_initial]
    /\ live = [m \in Members |-> "alive"]
    /\ msgs = {}
    /\ next_change = 1
    /\ restarts = 0
    /\ leaders = {}
    /\ applied = {}
    /\ committed = {}
    /\ proposed = {}

request_vote(s, m, peer) ==
    [type |-> "RV", from |-> m, to |-> peer, term |-> s.ps.current_term,
     session |-> s.session,
     last_log_index |-> get_latest_index(s.ps.log),
     last_log_term |-> get_entry_term(s.ps.log, get_latest_index(s.ps.log))]

\* become_candidate and the setup of leader_coro.
leader_coro(s, m) ==
    [update_term(become_follower(s), s.ps.current_term + 1)
        EXCEPT !.mode = "candidate", !.ps.voted_for = m, !.votes = {m},
               !.replied = {}]

\* The election timer of member m expires: become_candidate and the setup
\* of leader_coro as one step.  (A handler that runs between the two finds
\* the member as it was before become_candidate; see BecomeCandidate.)
Timeout(m) ==
    /\ live[m] = "alive"
    /\ raft[m].mode # "leader"
    /\ raft' = [raft EXCEPT ![m] = leader_coro(@, m)]
    /\ UNCHANGED <<stored, live, msgs, next_change, restarts, leaders, applied,
                   committed, proposed>>

\* One of the parallel send_request_vote_rpc calls of leader_coro, which
\* calls every member of the configuration.
SendRequestVote(m, peer) ==
    /\ live[m] = "alive"
    /\ raft[m].mode = "candidate"
    /\ peer \notin raft[m].replied
    /\ request_vote(raft[m], m, peer) \notin msgs
    /\ msgs' = msgs \cup {request_vote(raft[m], m, peer)}
    /\ UNCHANGED <<raft, stored, live, next_change, restarts, leaders, applied,
                   committed, proposed>>

become_leader(s) ==
    [s EXCEPT !.mode = "leader",
              !.next_index = [p \in Members |-> get_latest_index(s.ps.log) + 1],
              !.match_index = NoIndex]

BecomeLeader(m) ==
    /\ live[m] = "alive"
    /\ raft[m].mode = "candidate"
    /\ Quorum(raft[m], raft[m].votes)
    /\ raft' = [raft EXCEPT ![m] = become_leader(@)]
    /\ leaders' = leaders \cup {<<raft[m].ps.current_term, m>>}
    /\ UNCHANGED <<stored, live, msgs, next_change, restarts, applied, committed,
                   proposed>>

\* The state machine with the entries applied that the log holds after
\* last_applied.
get_state_including_log(s) ==
    s.state_machine \o
        [k \in 1..(get_latest_index(s.ps.log)
                        - MaxOf(s.last_applied, s.ps.log.prev_log_index)) |->
            get_entry(s.ps.log,
                      MaxOf(s.last_applied, s.ps.log.prev_log_index) + k).change]

\* propose_change without the predicate.
propose_change_unchecked(s, change) ==
    [s EXCEPT !.ps.log.entries =
        Append(@, [term |-> s.ps.current_term, change |-> change])]

propose_change(s, change) ==
    IF consider_change(get_state_including_log(s), change)
    THEN [s EXCEPT !.ps.log.entries =
                Append(@, [term |-> s.ps.current_term, change |-> change])]
    ELSE s

\* A client proposes the next change to leader m.
ClientPropose(m) ==
    /\ live[m] = "alive"
    /\ raft[m].mode = "leader"
    /\ raft' = [raft EXCEPT ![m] = propose_change(@, next_change)]
    /\ stored' = [stored EXCEPT ![m] = raft'[m].ps]
    /\ next_change' = next_change + 1
    /\ proposed' = IF consider_change(get_state_including_log(raft[m]), next_change)
                   THEN proposed \cup
                        {[index |-> get_latest_index(raft[m].ps.log) + 1,
                          term |-> raft[m].ps.current_term,
                          change |-> next_change]}
                   ELSE proposed
    /\ UNCHANGED <<live, msgs, restarts, leaders, applied, committed>>

\* The configuration change a leader may append: C_old,new from the
\* initial configuration, C_new once C_old,new is committed, Nil otherwise.
next_config_change(s) ==
    IF PendingConfigs(s) # {} THEN Nil
    ELSE IF CommittedConfigs(s) = {Members} THEN JointChange
    ELSE IF CommittedConfigs(s) = {Members, NewMembers} THEN NewConfigChange
    ELSE Nil

\* propose_config_change on leader m.
ProposeConfigChange(m) ==
    /\ live[m] = "alive"
    /\ raft[m].mode = "leader"
    /\ next_config_change(raft[m]) # Nil
    /\ raft' = [raft EXCEPT
                    ![m] = propose_change(@, next_config_change(raft[m]))]
    /\ stored' = [stored EXCEPT ![m] = raft'[m].ps]
    /\ proposed' = proposed \cup
                        {[index |-> get_latest_index(raft[m].ps.log) + 1,
                          term |-> raft[m].ps.current_term,
                          change |-> next_config_change(raft[m])]}
    /\ UNCHANGED <<live, msgs, next_change, restarts, leaders, applied,
                   committed>>

append_entries(s, m, peer) ==
    LET log == s.ps.log
        ni == s.next_index[peer]
    IN [type |-> "AE", from |-> m, to |-> peer, term |-> s.ps.current_term,
        session |-> s.session,
        prev_log_index |-> ni - 1,
        prev_log_term |-> get_entry_term(log, ni - 1),
        entries |-> SubSeq(log.entries, ni - log.prev_log_index, Len(log.entries)),
        leader_commit |-> s.commit_index]

install_snapshot(s, m, peer) ==
    [type |-> "IS", from |-> m, to |-> peer, term |-> s.ps.current_term,
     session |-> s.session,
     last_included_index |-> s.ps.log.prev_log_index,
     last_included_term |-> s.ps.log.prev_log_term,
     snapshot |-> s.ps.snapshot]

\* What the replication task of leader s sends to `peer`.
replicate(s, m, peer) ==
    IF s.next_index[peer] > s.ps.log.prev_log_index
    THEN append_entries(s, m, peer)
    ELSE install_snapshot(s, m, peer)

Replicate(m, peer) ==
    /\ live[m] = "alive"
    /\ raft[m].mode = "leader"
    /\ peer # m
    /\ replicate(raft[m], m, peer) \notin msgs
    /\ msgs' = msgs \cup {replicate(raft[m], m, peer)}
    /\ raft' = IF raft[m].next_index[peer] > raft[m].ps.log.prev_log_index
               THEN raft
               ELSE [raft EXCEPT ![m].next_index[peer] =
                                    raft[m].ps.log.prev_log_index + 1]
    /\ UNCHANGED <<stored, live, next_change, restarts, leaders, applied,
                   committed, proposed>>

\* may_commit without the majority.
may_commit_alone(s, m, n) ==
    /\ n > s.commit_index
    /\ ValidEntryIndex(s.ps.log, n)
    /\ get_entry_term(s.ps.log, n) = s.ps.current_term

\* The leader's commit rule.
may_commit(s, m, n) ==
    /\ n > s.commit_index
    /\ ValidEntryIndex(s.ps.log, n)
    /\ get_entry_term(s.ps.log, n) = s.ps.current_term
    /\ Quorum(s, {m} \cup {p \in Members : s.match_index[p] >= n})

AdvanceCommit(m) ==
    /\ live[m] = "alive"
    /\ raft[m].mode = "leader"
    /\ \E n \in 1..get_latest_index(raft[m].ps.log) :
        /\ may_commit(raft[m], m, n)
        /\ LET c == update_commit_index(Ctx(raft[m]), n) IN
           /\ raft' = IF c.failed = ""
                      THEN [raft EXCEPT ![m] = step_down(c.s, m)] ELSE raft
           /\ live' = IF c.failed = "" THEN live ELSE [live EXCEPT ![m] = c.failed]
           /\ applied' = applied \cup c.applied
           /\ committed' = committed \cup
                {[index |-> a[1], entry |-> a[2], term |-> raft[m].ps.current_term] :
                    a \in c.applied}
    /\ UNCHANGED <<stored, msgs, next_change, restarts, leaders, proposed>>

\* The request is handled by its receiver and the reply by its sender, if
\* the reply reaches it (got).
Deliver(msg, got) ==
    /\ msg \in msgs
    /\ live[msg.to] = "alive"
    /\ LET r == Handle(raft[msg.to], msg)
           f == msg.from
       IN
       /\ IF r.failed # ""
          THEN /\ live' = [live EXCEPT ![msg.to] = r.failed]
               /\ UNCHANGED <<raft, stored, applied>>
          ELSE /\ live' = live
               /\ stored' = IF r.persist THEN [stored EXCEPT ![msg.to] = r.s.ps]
                            ELSE stored
               /\ applied' = applied \cup r.applied
               /\ raft' = [raft EXCEPT
                    ![msg.to] = r.s,
                    ![f] = IF got /\ live[f] = "alive" /\ Waiting(@, msg)
                           THEN on_reply(@, msg, r) ELSE @]
    /\ msgs' = msgs \ {msg}
    /\ UNCHANGED <<next_change, restarts, leaders, committed, proposed>>

\* The network loses a request.
Drop(msg) ==
    /\ msg \in msgs
    /\ msgs' = msgs \ {msg}
    /\ UNCHANGED <<raft, stored, live, next_change, restarts, leaders, applied,
                   committed, proposed>>

\* set_live(m, dead) followed by set_live(m, alive): the member is destroyed
\* and re-created from stored_state.  The requests on their way to the
\* mailbox of the destroyed member are lost with it.
Restart(m) ==
    /\ raft' = [raft EXCEPT ![m] = NewMember(stored[m], restarts + 1)]
    /\ msgs' = {msg \in msgs : msg.to # m}
    /\ live' = [live EXCEPT ![m] = "alive"]
    /\ restarts' = restarts + 1
    /\ UNCHANGED <<stored, next_change, leaders, applied, committed, proposed>>

\* ---------------------------------------------------------- specifications
\* The cluster from its construction.  Where a candidate can win its
\* election (which follows spec.md 4.2.4), it asks the other members for
\* their votes (spec.md 4.2.2); NextElect has the calls as leader_coro makes
\* them.
Next ==
    \/ \E m \in Candidates :
        raft[m].ps.current_term < MaxTerm /\ Timeout(m)
    \/ \E m \in Members : \E p \in Members \ {m} :
        Cardinality(msgs) < MaxMsgs /\ SendRequestVote(m, p)
    \/ \E m \in Members : BecomeLeader(m)
    \/ \E m \in Members :
        get_latest_index(raft[m].ps.log) < MaxIndex /\ ClientPropose(m)
    \/ \E m \in Members : \E p \in Members :
        Cardinality(msgs) < MaxMsgs /\ Replicate(m, p)
    \/ \E m \in Members : AdvanceCommit(m)
    \/ \E msg \in msgs : \E got \in BOOLEAN : Deliver(msg, got)
    \/ \E msg \in msgs : Drop(msg)
    \/ \E m \in Members : restarts < MaxRestarts /\ Restart(m)

Spec == Init /\ [][Next]_vars

\* The requests of one type in flight.
InFlight(type) == Cardinality({msg \in msgs : msg.type = type})

\* Replication under the first leader: member 1 has won the election of
\* term 1 with the votes of all members (a state Spec reaches).
Elected(s) ==
    become_leader([leader_coro(s, 1) EXCEPT !.votes = Members,
                                            !.replied = Members \ {1}])

Fresh == NewMember(make_initial, 0)

InitRepl ==
    /\ raft = [m \in Members |->
                IF m = 1 THEN Elected(Fresh)
                ELSE on_request_vote(Fresh,
                        request_vote(leader_coro(Fresh, 1), 1, m)).s]
    /\ stored = [m \in Members |-> IF m = 1 THEN make_initial ELSE raft[m].ps]
    /\ live = [m \in Members |-> "alive"]
    /\ msgs = {}
    /\ next_change = 1
    /\ restarts = 0
    /\ leaders = {<<1, 1>>}
    /\ applied = {}
    /\ committed = {}
    /\ proposed = {}

\* No member is killed and no request is lost: a request is delivered, late
\* or in time, and its reply may be lost.
NextRepl ==
    \/ \E m \in Members :
        get_latest_index(raft[m].ps.log) < ReplMaxIndex /\ ClientPropose(m)
    \/ \E m \in Members : \E p \in Members :
        InFlight(replicate(raft[m], m, p).type) < ReplMaxInFlight /\ Replicate(m, p)
    \/ \E m \in Members : AdvanceCommit(m)
    \/ \E msg \in msgs : \E got \in BOOLEAN : Deliver(msg, got)

SpecRepl == InitRepl /\ [][NextRepl]_vars

\* The first leader and a second election: the election timer of member 2 may
\* expire while member 1 replicates.
NextFail ==
    \/ raft[2].ps.current_term < FailMaxTerm /\ Timeout(2)
    \/ \E m \in Members : \E p \in Members \ {m} :
        Cardinality(msgs) < FailMaxMsgs /\ SendRequestVote(m, p)
    \/ \E m \in Members : BecomeLeader(m)
    \/ \E m \in Members :
        get_latest_index(raft[m].ps.log) < FailMaxIndex /\ ClientPropose(m)
    \/ \E m \in Members : \E p \in Members :
        Cardinality(msgs) < FailMaxMsgs /\ Replicate(m, p)
    \/ \E m \in Members : AdvanceCommit(m)
    \/ \E msg \in msgs : \E got \in BOOLEAN : Deliver(msg, got)
    \/ \E msg \in msgs : Drop(msg)

SpecFail == InitRepl /\ [][NextFail]_vars

\* The same with two requests of a leader on their way at a time, one of
\* which may overtake the other, and no reply lost; member 1 takes the
\* proposals.
NextLag ==
    \/ raft[2].ps.current_term < LagMaxTerm /\ Timeout(2)
    \/ \E p \in Members \ {2} : msgs = {} /\ SendRequestVote(2, p)
    \/ BecomeLeader(2)
    \/ get_latest_index(raft[1].ps.log) < LagMaxIndex /\ ClientPropose(1)
    \/ \E m \in Members : \E p \in Members :
        Cardinality(msgs) < LagMaxMsgs /\ Replicate(m, p)
    \/ \E m \in Members : AdvanceCommit(m)
    \/ \E msg \in msgs : Deliver(msg, TRUE)

SpecLag == InitRepl /\ [][NextLag]_vars

\* The same, with a next change that the leader accepts and the other
\* members refuse.
InitReject ==
    /\ raft = [m \in Members |->
                IF m = 1 THEN Elected(Fresh)
                ELSE on_request_vote(Fresh,
                        request_vote(leader_coro(Fresh, 1), 1, m)).s]
    /\ stored = [m \in Members |-> IF m = 1 THEN make_initial ELSE raft[m].ps]
    /\ live = [m \in Members |-> "alive"]
    /\ msgs = {}
    /\ next_change = RefusedChange
    /\ restarts = 0
    /\ leaders = {<<1, 1>>}
    /\ applied = {}
    /\ committed = {}
    /\ proposed = {}

SpecReject == InitReject /\ [][NextFail]_vars

\* A membership change under the first leader, from all members to
\* NewMembers, while election timers of voting members may expire.
NextConfig ==
    \/ \E m \in Members :
        /\ raft[m].ps.current_term < ConfMaxTerm
        /\ m \in UNION ActiveConfigs(raft[m])
        /\ Timeout(m)
    \/ \E m \in Members : \E p \in Members \ {m} :
        Cardinality(msgs) < ConfMaxMsgs /\ SendRequestVote(m, p)
    \/ \E m \in Members : BecomeLeader(m)
    \/ \E m \in Members : ProposeConfigChange(m)
    \/ \E m \in Members : \E p \in Members :
        Cardinality(msgs) < ConfMaxMsgs /\ Replicate(m, p)
    \/ \E m \in Members : AdvanceCommit(m)
    \/ \E msg \in msgs : \E got \in BOOLEAN : Deliver(msg, got)
    \/ \E msg \in msgs : Drop(msg)

SpecConfig == InitRepl /\ [][NextConfig]_vars

\* A send_request_vote_rpc of leader_coro returns with the reply r of
\* `msg`.  leader_coro reads neither term_out nor vote_granted_out: the
\* member is as before.  `replied` and `votes` only record which calls
\* have returned and which of them returned a granted vote.
vote_returned(s, msg, r) ==
    [s EXCEPT !.votes = IF r.outcome = "granted" THEN @ \cup {msg.to} ELSE @,
              !.replied = @ \cup {msg.to}]

\* A RequestVote is handled by its receiver and the reply returns to the
\* leader_coro of its sender, if it reaches it (got).
DeliverVote(msg, got) ==
    /\ msg \in msgs
    /\ msg.type = "RV"
    /\ live[msg.to] = "alive"
    /\ LET r == on_request_vote(raft[msg.to], msg)
           f == msg.from
       IN
       /\ IF r.failed # ""
          THEN /\ live' = [live EXCEPT ![msg.to] = r.failed]
               /\ UNCHANGED <<raft, stored>>
          ELSE /\ live' = live
               /\ stored' = IF r.persist THEN [stored EXCEPT ![msg.to] = r.s.ps]
                            ELSE stored
               /\ raft' = [raft EXCEPT
                    ![msg.to] = r.s,
                    ![f] = IF got /\ live[f] = "alive" /\ Waiting(@, msg)
                           THEN vote_returned(@, msg, r) ELSE @]
    /\ msgs' = msgs \ {msg}
    /\ UNCHANGED <<next_change, restarts, leaders, applied, committed, proposed>>

\* become_candidate: it spawns leader_coro with coro_t::spawn_sometime and
\* returns without waiting for pulse_when_done_with_setup.
BecomeCandidate(m) ==
    /\ live[m] = "alive"
    /\ raft[m].mode # "leader"
    /\ ~raft[m].spawned
    /\ raft' = [raft EXCEPT ![m].spawned = TRUE]
    /\ UNCHANGED <<stored, live, msgs, next_change, restarts, leaders, applied,
                   committed, proposed>>

\* The spawned leader_coro runs its setup.  mutex_acq_for_setup and
\* pulse_when_done_with_setup point into the frames of become_candidate and
\* of its caller, which may have returned: the setup runs to its end
\* (done), or the member is ended at its assert_is_holding or its pulse.
LeaderCoroSetup(m, done) ==
    /\ live[m] = "alive"
    /\ raft[m].spawned
    /\ raft' = IF done
               THEN [raft EXCEPT ![m] = [leader_coro(@, m) EXCEPT !.spawned = FALSE]]
               ELSE raft
    /\ live' = IF done THEN live
               ELSE [live EXCEPT ![m] = "leader_coro: mutex_acq_for_setup"]
    /\ UNCHANGED <<stored, msgs, next_change, restarts, leaders, applied,
                   committed, proposed>>

\* The election as raft_core.tcc codes it: become_candidate, the setup of
\* leader_coro and its send_request_vote_rpc calls, whose results
\* leader_coro does not read.  Nothing in raft_core.tcc makes a candidate
\* leader.  The peers of leader_coro are all members of the configuration,
\* the candidate among them.  Timers expire and requests are delivered with
\* their replies again and again; the call of a candidate to itself may
\* fail.
NextElect ==
    \/ \E m \in Candidates :
        raft[m].ps.current_term < ElectMaxTerm /\ BecomeCandidate(m)
    \/ \E m \in Members : \E done \in BOOLEAN : LeaderCoroSetup(m, done)
    \/ \E m \in Members : \E p \in Members :
        Cardinality(msgs) < ElectMaxMsgs /\ SendRequestVote(m, p)
    \/ \E msg \in msgs : \E got \in BOOLEAN : DeliverVote(msg, got)
    \/ \E msg \in msgs : Drop(msg)

SpecElect ==
    /\ Init
    /\ [][NextElect]_vars
    /\ \A m \in Candidates :
        WF_vars(raft[m].ps.current_term < ElectMaxTerm /\ BecomeCandidate(m))
    /\ \A m \in Members : WF_vars(LeaderCoroSetup(m, TRUE))
    /\ \A m \in Members : \A p \in Members \ {m} :
        WF_vars(Cardinality(msgs) < ElectMaxMsgs /\ SendRequestVote(m, p))
    /\ SF_vars(\E msg \in msgs : DeliverVote(msg, TRUE))

\* ------------------------------------------------------------------ claims
Alive == {m \in Members : live[m] = "alive"}

\* The indexes at which `log` holds an entry.
LogIndexes(log) == (log.prev_log_index + 1)..get_latest_index(log)

\* Member state s holds `entry` at `index`, in its log or in its snapshot.
Holds(s, index, entry) ==
    IF ValidEntryIndex(s.ps.log, index)
    THEN get_entry(s.ps.log, index) = entry
    ELSE /\ index <= s.ps.log.prev_log_index
         /\ index <= Len(s.ps.snapshot)
         /\ s.ps.snapshot[index] = entry.change

\* The change member state s holds at `index` (in its log or in its
\* snapshot), Nil when it holds none.
Held(s, index) ==
    IF ValidEntryIndex(s.ps.log, index) THEN get_entry(s.ps.log, index).change
    ELSE IF index <= s.ps.log.prev_log_index /\ index <= Len(s.ps.snapshot)
    THEN s.ps.snapshot[index]
    ELSE Nil

\* Member m is the same running member before and after the step.
Running(m) ==
    /\ live[m] = "alive"
    /\ live'[m] = "alive"
    /\ raft'[m].session = raft[m].session

\* The step runs the handler of request msg at its receiver, which replies.
Handles(msg) ==
    LET r == Handle(raft[msg.to], msg) IN
    /\ msg \notin msgs'
    /\ Running(msg.to)
    /\ r.failed = ""
    /\ raft'[msg.to] = r.s
    /\ stored'[msg.to] = IF r.persist THEN r.s.ps ELSE stored[msg.to]

\* The member advertises readiness for change: it is leader and has
\* contacted a quorum in its term.
Ready(m) ==
    /\ live[m] = "alive"
    /\ raft[m].mode = "leader"
    /\ IsMajority(raft[m].votes)

\* C1: election safety.  For every term at most one member ever wins the
\* election and acts as leader, and no member is aborted by the
\* guarantee(mode != leader) of on_append_entries_rpc.
C1_ElectionSafety ==
    /\ \A a \in leaders : \A b \in leaders : a[1] = b[1] => a[2] = b[2]
    /\ \A m \in Members : live[m] # "guarantee(mode != leader)"

\* C2: state-machine safety.  No two entries applied at one index (by any
\* members, restarted or not) differ, and every member has applied exactly the
\* indexes 1..last_applied, one change each, with no gap and no repeat.
C2_StateMachineSafety ==
    /\ \A a \in applied : \A b \in applied : a[1] = b[1] => a[2] = b[2]
    /\ \A m \in Alive : Len(raft[m].state_machine) = raft[m].last_applied

\* C3: log matching.  If the logs of two members hold an entry of the same
\* term at the same index, they hold identical entries at every earlier index
\* that both logs still retain.
C3_LogMatching ==
    \A m \in Alive : \A n \in Alive :
        \A i \in LogIndexes(raft[m].ps.log) \cap LogIndexes(raft[n].ps.log) :
            get_entry_term(raft[m].ps.log, i) = get_entry_term(raft[n].ps.log, i)
            => \A j \in LogIndexes(raft[m].ps.log) \cap LogIndexes(raft[n].ps.log) :
                j < i => get_entry(raft[m].ps.log, j) = get_entry(raft[n].ps.log, j)

\* C4: leader completeness.  Every entry committed in a term T is held, in
\* its log or covered by its snapshot with the same content, by every member
\* that is leader in a term greater than T.
C4_LeaderCompleteness ==
    \A m \in Alive : raft[m].mode = "leader" =>
        \A c \in committed :
            c.term < raft[m].ps.current_term => Holds(raft[m], c.index, c.entry)

C6_CommittedNeverChanged ==
    [][\A m \in Members : Running(m) =>
            \A i \in 1..raft[m].commit_index :
                Held(raft[m], i) # Nil => Held(raft'[m], i) = Held(raft[m], i)]_vars

\* C7: persist before reply.  When a handler replies with term_out = T, the
\* state held by the storage adapter has current_term = T and the voted_for
\* of the member.
C7_PersistBeforeReply ==
    [][\A msg \in msgs : Handles(msg) =>
            /\ stored'[msg.to].current_term = Handle(raft[msg.to], msg).term_out
            /\ stored'[msg.to].voted_for = raft'[msg.to].ps.voted_for]_vars

\* C8: current_term never decreases in any one member, in no handler, no
\* election step and no kill followed by a re-creation from the stored state.
C8_TermMonotonic ==
    [][\A m \in Members :
            raft'[m].ps.current_term >= raft[m].ps.current_term]_vars

\* C9: commit_index never decreases in a running member.
C9_CommitMonotonic ==
    [][\A m \in Members : Running(m) =>
            raft'[m].commit_index >= raft[m].commit_index]_vars

\* A member whose commit_index has advanced twice has then handled a stale
\* InstallSnapshot (its snapshot is older than its commit_index).
C9_Witness ==
    \E m \in Alive :
        /\ raft[m].mode = "follower"
        /\ raft[m].commit_index >= 2
        /\ raft[m].ps.log.prev_log_index < raft[m].commit_index

\* C10: after every completed operation of a member,
\* last_applied <= commit_index <= log.latest_index.
C10_IndexOrder ==
    \A m \in Alive :
        /\ raft[m].last_applied <= raft[m].commit_index
        /\ raft[m].commit_index <= get_latest_index(raft[m].ps.log)

\* The entry a leader appended at `index` with this term and change.
Proposed(index, term, change) ==
    [index |-> index, term |-> term, change |-> change] \in proposed

\* C11: the snapshot and the log of a member fit together.  The snapshot is
\* the state after exactly the entries up to log.prev_log_index (one change
\* for each index, the change appended at that index), prev_log_term is the
\* term of the entry at prev_log_index, and the retained entry at position k
\* is the entry that was appended at index prev_log_index + k.
C11_SnapshotMatchesLog ==
    \A m \in Alive :
        LET ps == raft[m].ps
            prev == ps.log.prev_log_index
        IN  /\ Len(ps.snapshot) = prev
            /\ \A k \in 1..prev :
                    \E q \in proposed : q.index = k /\ q.change = ps.snapshot[k]
            /\ prev > 0 =>
                    Proposed(prev, ps.log.prev_log_term, ps.snapshot[prev])
            /\ \A k \in 1..Len(ps.log.entries) :
                    Proposed(prev + k, ps.log.entries[k].term,
                             ps.log.entries[k].change)

\* C12: this_term_leader_id, once set in a term, is not set to another member
\* while the member runs in that term, and no member is aborted by the
\* guarantee(this_term_leader_id == leader_id) of on_append_entries_rpc and
\* on_install_snapshot.
C12_ThisTermLeaderStable ==
    [][\A m \in Members :
        /\ live'[m] # "guarantee(this_term_leader_id == leader_id)"
        /\ ( /\ Running(m)
             /\ raft'[m].ps.current_term = raft[m].ps.current_term
             /\ raft[m].this_term_leader_id # Nil )
           => raft'[m].this_term_leader_id = raft[m].this_term_leader_id]_vars

\* C13: liveness.  With all members alive and connected, eventually some
\* member is leader and advertises readiness for change.
C13_EventuallyReady == <>(\E m \in Members : Ready(m))

\* The step runs the handler of AppendEntries request msg at its receiver,
\* which replies Rejected.
Rejects(msg) ==
    /\ msg.type = "AE"
    /\ Handles(msg)
    /\ Handle(raft[msg.to], msg).outcome = "rejected"

\* C14: when the handler of an AppendEntries request replies Rejected, the
\* reply carries current_term and nothing of the member has changed since
\* before the request was handled: current_term, voted_for,
\* this_term_leader, role, log, commit_index, last_applied, state machine
\* and stored state.
C14_RejectedMutatesNothing ==
    [][\A msg \in msgs : Rejects(msg) =>
        /\ Handle(raft[msg.to], msg).term_out = raft'[msg.to].ps.current_term
        /\ raft'[msg.to].ps = raft[msg.to].ps
        /\ raft'[msg.to].this_term_leader_id = raft[msg.to].this_term_leader_id
        /\ raft'[msg.to].mode = raft[msg.to].mode
        /\ raft'[msg.to].commit_index = raft[msg.to].commit_index
        /\ raft'[msg.to].last_applied = raft[msg.to].last_applied
        /\ raft'[msg.to].state_machine = raft[msg.to].state_machine
        /\ stored'[msg.to] = stored[msg.to]]_vars

\* C14, amended: when the handler of an AppendEntries request replies
\* Rejected, the reply carries current_term; log, snapshot, commit_index,
\* last_applied and state machine are as before the request was handled;
\* and so are current_term, voted_for, this_term_leader, role and stored
\* state when the term of the request was not higher than current_term and
\* the member was not a candidate.
C14_RejectedKeepsLog ==
    [][\A msg \in msgs : Rejects(msg) =>
        /\ Handle(raft[msg.to], msg).term_out = raft'[msg.to].ps.current_term
        /\ raft'[msg.to].ps.log = raft[msg.to].ps.log
        /\ raft'[msg.to].ps.snapshot = raft[msg.to].ps.snapshot
        /\ raft'[msg.to].commit_index = raft[msg.to].commit_index
        /\ raft'[msg.to].last_applied = raft[msg.to].last_applied
        /\ raft'[msg.to].state_machine = raft[msg.to].state_machine
        /\ (msg.term <= raft[msg.to].ps.current_term
                /\ raft[msg.to].mode # "candidate")
           => /\ raft'[msg.to].ps = raft[msg.to].ps
              /\ raft'[msg.to].this_term_leader_id
                    = raft[msg.to].this_term_leader_id
              /\ raft'[msg.to].mode = raft[msg.to].mode
              /\ stored'[msg.to] = stored[msg.to]]_vars

\* A request of a higher term is in flight to a running member that will
\* refuse one of its entries.
C14_Witness ==
    \E msg \in msgs :
        /\ msg.type = "AE"
        /\ live[msg.to] = "alive"
        /\ msg.term > raft[msg.to].ps.current_term
        /\ Handle(raft[msg.to], msg).failed = ""
        /\ Handle(raft[msg.to], msg).outcome = "rejected"

\* The changes persistent state ps holds, in its log and in its snapshot.
Changes(ps) ==
    {ps.log.entries[k].change : k \in 1..Len(ps.log.entries)}
        \cup {ps.snapshot[k] : k \in 1..Len(ps.snapshot)}

\* The leader of `term` has committed the entry of `change` at `index`.
Committed(index, term, change) ==
    \E c \in committed : /\ c.index = index
                         /\ c.entry = [term |-> term, change |-> change]

\* C15: a change the state machine refuses is in no log, snapshot, state
\* machine or stored state of any member, it is never applied or committed,
\* and its proposal has no entry (its token fails); the changes proposed
\* around it are accepted.
C15_RefusedNeverInLog ==
    /\ \A m \in Members :
        /\ BadChange \notin Changes(raft[m].ps)
        /\ BadChange \notin Changes(stored[m])
        /\ \A k \in 1..Len(raft[m].state_machine) :
                raft[m].state_machine[k] # BadChange
    /\ \A a \in applied : a[2].change # BadChange
    /\ \A c \in committed : c.entry.change # BadChange
    /\ \A q \in proposed : q.change # BadChange
    /\ \A n \in 1..(next_change - 1) :
        n # BadChange => \E q \in proposed : q.change = n

\* The changes c1, c2, c_bad and c4 were proposed in this order and the
\* entries of c1, c2 and c4 are committed: their tokens succeed.
C15_Witness ==
    /\ next_change > BadChange + 1
    /\ Committed(1, 1, 1)
    /\ Committed(2, 1, 2)
    /\ Committed(3, 1, BadChange + 1)

\* The token of proposal q resolves to Success: the entry of its (index,
\* term) is committed.
Succeeds(q) == Committed(q.index, q.term, q.change)

\* The token of proposal q resolves to Failed: an entry of another term is
\* committed at its index.
Superseded(q) ==
    \E c \in committed : c.index = q.index /\ c.entry.term # q.term

\* C16: a token resolves to Success only by the commit of the entry of its
\* (index, term) and to Failed only by the commit of an entry of another
\* term at its index; no token resolves both ways, and a resolved token
\* keeps its resolution.
C16_TokenResolvesOnce ==
    [][\A q \in proposed :
        /\ ~(Succeeds(q)' /\ Superseded(q)')
        /\ Succeeds(q) => Succeeds(q)'
        /\ Superseded(q) => Superseded(q)']_vars

\* One token has resolved to Success and another to Failed: the entry of
\* one leader is committed at an index where an earlier leader had proposed.
C16_Witness ==
    \E q \in proposed : \E w \in proposed :
        /\ Succeeds(q) /\ ~Superseded(q)
        /\ Superseded(w) /\ ~Succeeds(w)

\* The members that leader state s of member m knows to hold its log up to
\* index n.
Matching(s, m, n) == {m} \cup {p \in Members : s.match_index[p] >= n}

\* C17: leader commit rule.  Whenever the commit_index of a leader changes
\* within its term, it moves up to an index N whose entry is of
\* the leader's current_term and that a majority of the members match
\* (match_index >= N, the leader itself included); with no majority
\* matching, the commit_index of a leader stays.
C17_LeaderCommitRule ==
    [][\A m \in Members :
        (/\ Running(m)
         /\ raft[m].mode = "leader"
         /\ raft'[m].ps.current_term = raft[m].ps.current_term
         /\ raft'[m].commit_index # raft[m].commit_index)
        => /\ raft'[m].commit_index > raft[m].commit_index
           /\ ValidEntryIndex(raft[m].ps.log, raft'[m].commit_index)
           /\ get_entry_term(raft[m].ps.log, raft'[m].commit_index)
                = raft[m].ps.current_term
           /\ IsMajority(Matching(raft[m], m, raft'[m].commit_index))]_vars

\* A leader of term 2 has advanced its commit_index while another member
\* does not match it.
C17_Witness ==
    \E m \in Members :
        /\ live[m] = "alive"
        /\ raft[m].mode = "leader"
        /\ raft[m].ps.current_term = 2
        /\ raft[m].commit_index > 0
        /\ \E p \in Members \ {m} :
                raft[m].match_index[p] < raft[m].commit_index

\* The joint configuration is active at member state s.
Joint(s) == ActiveConfigs(s) = {Members, NewMembers}

\* C18: joint consensus.  While the joint configuration is active at a
\* member (C_old,new is in its log or committed, and C_new is not yet
\* committed), it wins an election only with the votes of a majority of
\* C_old and of a majority of C_new, and as leader it advances its
\* commit_index within its term only to an index that a majority of C_old
\* and a majority of C_new match; and no two members win the election of
\* one term.
C18_JointConsensus ==
    [][/\ \A m \in Members : (Running(m) /\ Joint(raft[m])) =>
            /\ (raft[m].mode # "leader" /\ raft'[m].mode = "leader")
               => /\ IsMajority(raft[m].votes)
                  /\ NewMembers \subseteq raft[m].votes
            /\ (raft[m].mode = "leader"
                    /\ raft'[m].ps.current_term = raft[m].ps.current_term
                    /\ raft'[m].commit_index # raft[m].commit_index)
               => /\ IsMajority(Matching(raft[m], m, raft'[m].commit_index))
                  /\ NewMembers
                        \subseteq Matching(raft[m], m, raft'[m].commit_index)
       /\ \A a \in leaders' : \A b \in leaders' : a[1] = b[1] => a[2] = b[2]
      ]_vars

\* A member has won an election while the joint configuration was active
\* at it, and a leader has committed C_old,new.
C18_Witness ==
    /\ \E m \in Members :
        /\ raft[m].mode = "leader"
        /\ raft[m].ps.current_term = 2
        /\ Joint(raft[m])
    /\ \E c \in committed : c.entry.change = JointChange

\* C19: leader append-only.  In every step in which a running member is
\* and stays leader of its term, every entry of its log is still held at
\* its index afterwards (in the log, or in the snapshot that covers it);
\* the handler of AppendEntries never truncates the log of a leader.
C19_LeaderAppendOnly ==
    [][\A m \in Members :
        (/\ Running(m)
         /\ raft[m].mode = "leader"
         /\ raft'[m].mode = "leader"
         /\ raft'[m].ps.current_term = raft[m].ps.current_term)
        => \A i \in LogIndexes(raft[m].ps.log) :
                Holds(raft'[m], i, get_entry(raft[m].ps.log, i))]_vars

\* A member has left leadership and the entry it had appended as leader
\* has been replaced in its log by the entry of a later leader, while that
\* later leader holds its own.
C19_Witness ==
    \E m \in Members : \E q \in proposed : \E w \in proposed :
        /\ <<q.term, m>> \in leaders
        /\ raft[m].mode = "follower"
        /\ w.index = q.index
        /\ w.term > q.term
        /\ ValidEntryIndex(raft[m].ps.log, q.index)
        /\ get_entry(raft[m].ps.log, q.index)
                = [term |-> w.term, change |-> w.change]
        /\ \E n \in Members :
            /\ raft[n].mode = "leader"
            /\ raft[n].ps.current_term = w.term
            /\ Holds(raft[n], w.index, [term |-> w.term, change |-> w.change])

\* C20: recovery round-trip.  When a running member is killed and
\* re-created from the state last written to the storage adapter, the
\* state machine of the new member is the state machine of the member
\* before the kill: no applied change is lost.
C20_RecoveryRoundTrip ==
    [][\A m \in Members :
        (live[m] = "alive" /\ raft'[m].session # raft[m].session)
        => raft'[m].state_machine = raft[m].state_machine]_vars

\* C21: higher-term handling.  When a running member handles a request
\* whose term is higher than its current_term, it does not stop at the
\* guarantee of become_follower, and before the rest of the handler runs
\* its current_term is the term of the request, voted_for and
\* this_term_leader are empty and it is follower; after the handler it has
\* the term of the request and is follower.
C21_HigherTerm ==
    [][\A msg \in msgs :
        (/\ live[msg.to] = "alive"
         /\ msg.term > raft[msg.to].ps.current_term
         /\ msg \notin msgs')
        => /\ live'[msg.to] # "guarantee(mode == follower)"
           /\ Handles(msg)
              => /\ higher_term(raft[msg.to], msg.term).ps.current_term = msg.term
                 /\ higher_term(raft[msg.to], msg.term).ps.voted_for = Nil
                 /\ higher_term(raft[msg.to], msg.term).this_term_leader_id = Nil
                 /\ higher_term(raft[msg.to], msg.term).mode = "follower"
                 /\ raft'[msg.to].ps.current_term = msg.term
                 /\ raft'[msg.to].mode = "follower"]_vars

\* The outcome with which the handler of a request of this type refuses it.
Negative(type) ==
    IF type = "AE" THEN "retry" ELSE IF type = "RV" THEN "denied" ELSE "ok"

\* Request msg is of a term below the current_term of its running receiver.
Stale(msg) ==
    /\ live[msg.to] = "alive"
    /\ msg.term < raft[msg.to].ps.current_term

\* C22: stale-term requests.  Whenever a running member takes a request of
\* a term below its current_term, the handler replies its current_term
\* with the negative outcome of the request (AppendEntries: retry,
\* RequestVote: not granted, InstallSnapshot: the early reply), no
\* guarantee fails, and every persistent and volatile field of the member
\* and its stored state are as before.
C22_StaleTerm ==
    [][\A msg \in msgs :
        (/\ Stale(msg)
         /\ msg \notin msgs'
         /\ raft'[msg.to].session = raft[msg.to].session)
        => /\ Handle(raft[msg.to], msg).failed = ""
           /\ Handle(raft[msg.to], msg).term_out = raft[msg.to].ps.current_term
           /\ Handle(raft[msg.to], msg).outcome = Negative(msg.type)
           /\ ~Handle(raft[msg.to], msg).persist
           /\ live'[msg.to] = "alive"
           /\ raft'[msg.to] = raft[msg.to]
           /\ stored'[msg.to] = stored[msg.to]]_vars

\* A stale InstallSnapshot with a snapshot that its receiver does not have
\* is on its way to a running member.
C22_Witness ==
    \E msg \in msgs :
        /\ Stale(msg)
        /\ msg.type = "IS"
        /\ msg.last_included_index > get_latest_index(raft[msg.to].ps.log)
        /\ Handle(raft[msg.to], msg).outcome = Negative("IS")

\* Member m has stood as candidate in its current_term, and so has voted
\* for itself in it: it won that term, a peer holds a vote for it in that
\* term, or its RequestVote of that term is on its way.
StoodIn(m) ==
    \/ <<raft[m].ps.current_term, m>> \in leaders
    \/ \E p \in Members \ {m} :
            /\ raft[p].ps.current_term = raft[m].ps.current_term
            /\ raft[p].ps.voted_for = m
    \/ \E msg \in msgs :
            /\ msg.type = "RV"
            /\ msg.from = m
            /\ msg.term = raft[m].ps.current_term

\* C23: one vote per term.  A member that has voted for itself in its
\* current_term holds no vote for another candidate in that term, also after
\* a kill and a restart from stored state; and the handler of a RequestVote
\* of the current term from a candidate other than voted_for denies the vote
\* and leaves voted_for as it is.
C23_OneVotePerTerm ==
    [][/\ \A m \in Members :
            StoodIn(m)' => raft'[m].ps.voted_for = m
       /\ \A msg \in msgs :
            (/\ msg.type = "RV"
             /\ Handles(msg)
             /\ msg.term = raft[msg.to].ps.current_term
             /\ raft[msg.to].ps.voted_for \notin {Nil, msg.from})
            => /\ Handle(raft[msg.to], msg).outcome = "denied"
               /\ raft'[msg.to].ps.voted_for = raft[msg.to].ps.voted_for]_vars

\* The term of the last entry of log (of its snapshot, if it has no entry).
LastTerm(log) == get_entry_term(log, get_latest_index(log))

\* The candidate of RequestVote msg is at least as up to date as log.
UpToDate(msg, log) ==
    \/ msg.last_log_term > LastTerm(log)
    \/ /\ msg.last_log_term = LastTerm(log)
       /\ msg.last_log_index >= get_latest_index(log)

\* The vote of a member whose handler takes a request of this term:
\* cleared by a higher term.
VoteAt(s, term) == IF term > s.ps.current_term THEN Nil ELSE s.ps.voted_for

\* C24: RequestVote decision.  When the handler of a RequestVote of a
\* term not below current_term replies, the vote is granted if and only if
\* voted_for (after the higher-term handling) is nil or the candidate and
\* the candidate's log is at least as up to date as the member's; on grant
\* the stored state has voted_for = candidate_id in the term of the
\* request, on denial voted_for (as the higher-term handling left it) and the
\* log are unchanged.
C24_VoteDecision ==
    [][\A msg \in msgs :
        (/\ msg.type = "RV"
         /\ Handles(msg)
         /\ msg.term >= raft[msg.to].ps.current_term)
        => /\ Handle(raft[msg.to], msg).outcome \in {"granted", "denied"}
           /\ Handle(raft[msg.to], msg).outcome = "granted"
                <=> /\ VoteAt(raft[msg.to], msg.term) \in {Nil, msg.from}
                    /\ UpToDate(msg, raft[msg.to].ps.log)
           /\ Handle(raft[msg.to], msg).outcome = "granted"
                => /\ raft'[msg.to].ps.voted_for = msg.from
                   /\ stored'[msg.to].voted_for = msg.from
                   /\ stored'[msg.to].current_term = msg.term
                   /\ Handle(raft[msg.to], msg).term_out = msg.term
           /\ Handle(raft[msg.to], msg).outcome = "denied"
                => /\ raft'[msg.to].ps.voted_for = VoteAt(raft[msg.to], msg.term)
                   /\ raft'[msg.to].ps.log = raft[msg.to].ps.log]_vars

\* A RequestVote is on its way to a running member that has not voted in
\* the term of the request and whose log ends in the same term as the
\* candidate's but is longer: the index decides, and the vote is denied.
C24_Witness ==
    \E msg \in msgs :
        /\ msg.type = "RV"
        /\ live[msg.to] = "alive"
        /\ msg.term >= raft[msg.to].ps.current_term
        /\ VoteAt(raft[msg.to], msg.term) = Nil
        /\ msg.last_log_term = LastTerm(raft[msg.to].ps.log)
        /\ msg.last_log_term > 0
        /\ msg.last_log_index < get_latest_index(raft[msg.to].ps.log)
        /\ Handle(raft[msg.to], msg).failed = ""
        /\ Handle(raft[msg.to], msg).outcome = "denied"

\* AppendEntries msg fails the consistency check against log: its
\* prev_log_index is beyond the log, or the log has another term there.
Inconsistent(msg, log) ==
    \/ msg.prev_log_index > get_latest_index(log)
    \/ /\ ValidTermIndex(log, msg.prev_log_index)
       /\ get_entry_term(log, msg.prev_log_index) # msg.prev_log_term

\* C25: AppendEntries consistency check.  Whenever a running member takes
\* an AppendEntries of its current_term that fails the consistency check,
\* the handler replies (current_term, retry), no guarantee fails, and the
\* log, commit_index, last_applied and the state machine are as before.
C25_ConsistencyCheck ==
    [][\A msg \in msgs :
        (/\ msg.type = "AE"
         /\ live[msg.to] = "alive"
         /\ msg.term = raft[msg.to].ps.current_term
         /\ Inconsistent(msg, raft[msg.to].ps.log)
         /\ msg \notin msgs'
         /\ raft'[msg.to].session = raft[msg.to].session)
        => /\ Handle(raft[msg.to], msg).failed = ""
           /\ Handle(raft[msg.to], msg).outcome = "retry"
           /\ Handle(raft[msg.to], msg).term_out = raft[msg.to].ps.current_term
           /\ live'[msg.to] = "alive"
           /\ raft'[msg.to].ps.log = raft[msg.to].ps.log
           /\ raft'[msg.to].commit_index = raft[msg.to].commit_index
           /\ raft'[msg.to].last_applied = raft[msg.to].last_applied
           /\ raft'[msg.to].state_machine = raft[msg.to].state_machine]_vars

\* C26: no handler reads a log index below log.prev_log_index.  No member
\* is ended by a get_entry_term of the consistency check or of the conflict
\* scan on an index that its compacted log no longer covers, whatever
\* AppendEntries or RequestVote arrives, delayed or repeated.
C26_NoReadBelowSnapshot ==
    \A m \in Members : live[m] # "log.get_entry_term out of range"

\* The indexes after prev_log_index at which log and the incoming entries
\* both have an entry, of different terms.
Conflicts(log, entries) ==
    {i \in (entries.prev_log_index + 1)..
                MinOf(get_latest_index(log), get_latest_index(entries)) :
        get_entry_term(log, i) # get_entry_term(entries, i)}

\* The first index that the handler of an AppendEntries with these entries
\* may remove from log: the smallest conflict, or none.
FirstRemoved(log, entries) ==
    IF Conflicts(log, entries) = {} THEN get_latest_index(log) + 1
    ELSE SetMin(Conflicts(log, entries))

\* The handler of AppendEntries msg replies success in this step.
Accepts(msg) ==
    /\ msg.type = "AE"
    /\ Handles(msg)
    /\ Handle(raft[msg.to], msg).outcome = "success"

\* C27: AppendEntries success postcondition.  When the handler replies
\* success, every index after prev_log_index up to the latest incoming
\* index that the member still retains holds the incoming entry; every
\* local entry before the smallest index where the local term differs from
\* the incoming one is retained unchanged (or compacted), and with no
\* conflict the log is no shorter than before.
C27_AppendPostcondition ==
    [][\A msg \in msgs : Accepts(msg) =>
        /\ \A i \in (msg.prev_log_index + 1)..get_latest_index(rpc_entries(msg)) :
                ValidEntryIndex(raft'[msg.to].ps.log, i)
                    => get_entry(raft'[msg.to].ps.log, i)
                            = get_entry(rpc_entries(msg), i)
        /\ \A i \in 1..(FirstRemoved(raft[msg.to].ps.log, rpc_entries(msg)) - 1) :
                ValidEntryIndex(raft[msg.to].ps.log, i)
                    => /\ i <= get_latest_index(raft'[msg.to].ps.log)
                       /\ ValidEntryIndex(raft'[msg.to].ps.log, i)
                            => get_entry(raft'[msg.to].ps.log, i)
                                    = get_entry(raft[msg.to].ps.log, i)
        /\ get_latest_index(raft'[msg.to].ps.log)
                >= get_latest_index(rpc_entries(msg))]_vars

\* The changes of log at indexes lo..hi, in order.
ChangesAt(log, lo, hi) ==
    [k \in 1..(hi - lo + 1) |-> get_entry(log, lo + k - 1).change]

\* C28: AppendEntries commit update.  No member is ended by
\* guarantee(new_commit_index > commit_index); and when the handler accepts
\* a request with leader_commit > commit_index, commit_index and
\* last_applied become min(leader_commit, latest incoming index) and the
\* state machine has applied the entries up to it, in order.
C28_CommitUpdate ==
    [][/\ \A m \in Members :
            live'[m] # "guarantee(new_commit_index > commit_index)"
       /\ \A msg \in msgs :
            (Accepts(msg) /\ msg.leader_commit > raft[msg.to].commit_index)
            => /\ raft'[msg.to].commit_index
                    = MinOf(msg.leader_commit, get_latest_index(rpc_entries(msg)))
               /\ raft'[msg.to].last_applied >= raft'[msg.to].commit_index
               /\ Len(raft'[msg.to].state_machine) = raft'[msg.to].last_applied
               /\ \A k \in 1..Len(raft[msg.to].state_machine) :
                    raft'[msg.to].state_machine[k] = raft[msg.to].state_machine[k]]_vars

\* The entries that member m has at index i when update_commit_index runs
\* in this step: the one of its log, and the one of the AppendEntries it
\* is handling.
EntriesAt(m, i) ==
    (IF ValidEntryIndex(raft[m].ps.log, i)
     THEN {get_entry(raft[m].ps.log, i)} ELSE {})
    \cup {get_entry(rpc_entries(msg), i) :
            msg \in {n \in msgs \ msgs' :
                        /\ n.to = m
                        /\ n.type = "AE"
                        /\ ValidEntryIndex(rpc_entries(n), i)}}

\* C29: snapshot-on-apply.  In every step in which update_commit_index has
\* run in a member and returned (its commit_index has moved up),
\* afterwards last_applied = commit_index = log.prev_log_index, the
\* snapshot is the state machine, log.prev_log_term is the term of an entry
\* the member had at that index, and every entry it had beyond that index
\* is in the log at the same index.
C29_SnapshotOnApply ==
    [][\A m \in Members :
        (Running(m) /\ raft'[m].commit_index > raft[m].commit_index)
        => /\ raft'[m].last_applied = raft'[m].commit_index
           /\ raft'[m].ps.log.prev_log_index = raft'[m].commit_index
           /\ raft'[m].ps.snapshot = raft'[m].state_machine
           /\ \E e \in EntriesAt(m, raft'[m].commit_index) :
                    e.term = raft'[m].ps.log.prev_log_term
           /\ \A i \in LogIndexes(raft'[m].ps.log) :
                    get_entry(raft'[m].ps.log, i) \in EntriesAt(m, i)
           /\ \A i \in LogIndexes(raft[m].ps.log) :
                    (/\ i > raft'[m].commit_index
                     /\ \A msg \in msgs \ msgs' :
                            msg.type = "AE"
                                => Conflicts(raft[m].ps.log, rpc_entries(msg)) = {})
                    => /\ ValidEntryIndex(raft'[m].ps.log, i)
                       /\ get_entry(raft'[m].ps.log, i) = get_entry(raft[m].ps.log, i)]_vars

\* A follower has committed and applied through an AppendEntries that
\* carried more entries than were committed: its log starts at its
\* commit_index and holds the later entries.
C29_Witness ==
    \E m \in Alive :
        /\ raft[m].mode = "follower"
        /\ raft[m].commit_index >= 2
        /\ raft[m].last_applied = raft[m].commit_index
        /\ raft[m].ps.log.prev_log_index = raft[m].commit_index
        /\ raft[m].ps.snapshot = raft[m].state_machine
        /\ Len(raft[m].state_machine) = raft[m].commit_index
        /\ Len(raft[m].ps.log.entries) >= 1

\* C30: every committed entry is acceptable when applied.  No member is
\* ended by the guarantee of update_commit_index that the state machine
\* accepts the change it is about to apply.
C30_AppliedAcceptable ==
    \A m \in Members : live[m] # "guarantee(state_machine.consider_change)"

\* The state machine of member state s with the changes of its log at
\* indexes last_applied+1 .. i applied, as the loop of
\* get_state_including_log has it after the round of index i.
SpeculativeAt(s, i) ==
    s.state_machine \o
        [k \in 1..(i - s.last_applied) |->
            get_entry(s.ps.log, s.last_applied + k).change]

\* get_state_including_log runs to its return on member state s: every
\* index last_applied+1 .. latest_index is one that log.get_entry can read,
\* and the state reached so far accepts the change of every one of them.
SpeculativeDefined(s) ==
    /\ \A i \in (s.last_applied + 1)..get_latest_index(s.ps.log) :
            ValidEntryIndex(s.ps.log, i)
    /\ \A i \in (s.last_applied + 1)..get_latest_index(s.ps.log) :
            consider_change(SpeculativeAt(s, i - 1), get_entry(s.ps.log, i).change)

\* C31: the speculative state is always well-defined.  In every state of
\* a running member, get_state_including_log reads only entries that the
\* log holds and its guarantee holds at every index from last_applied+1 to
\* the latest index.
C31_SpeculativeDefined ==
    \A m \in Alive : SpeculativeDefined(raft[m])

\* The receiver of InstallSnapshot msg does not need its snapshot: the
\* snapshot ends at or before the start of log, or at an entry of log with
\* the term of the snapshot.
Unneeded(msg, log) ==
    \/ msg.last_included_index <= log.prev_log_index
    \/ /\ ValidEntryIndex(log, msg.last_included_index)
       /\ get_entry_term(log, msg.last_included_index) = msg.last_included_term

\* C32: an unneeded InstallSnapshot changes nothing.  When a running
\* member handles an InstallSnapshot of its current_term whose snapshot it
\* does not need, the handler replies current_term, and the snapshot,
\* log.prev_log_index, log.prev_log_term, the log entries, the state
\* machine, commit_index and last_applied are as before.
C32_UnneededSnapshot ==
    [][\A msg \in msgs :
        (/\ msg.type = "IS"
         /\ Handles(msg)
         /\ msg.term = raft[msg.to].ps.current_term
         /\ Unneeded(msg, raft[msg.to].ps.log))
        => /\ Handle(raft[msg.to], msg).term_out = raft[msg.to].ps.current_term
           /\ raft'[msg.to].ps.snapshot = raft[msg.to].ps.snapshot
           /\ raft'[msg.to].ps.log = raft[msg.to].ps.log
           /\ raft'[msg.to].state_machine = raft[msg.to].state_machine
           /\ raft'[msg.to].commit_index = raft[msg.to].commit_index
           /\ raft'[msg.to].last_applied = raft[msg.to].last_applied]_vars

\* C33: a needed InstallSnapshot is installed.  When a running member
\* handles an InstallSnapshot of its current_term whose snapshot it needs,
\* afterwards the snapshot is the incoming state, the log has no entries,
\* log.prev_log_index and log.prev_log_term are those of the request, the
\* state machine is the snapshot, commit_index = last_applied =
\* last_included_index, this_term_leader_id is the sender, and the storage
\* adapter holds this state.
C33_NeededSnapshot ==
    [][\A msg \in msgs :
        (/\ msg.type = "IS"
         /\ Handles(msg)
         /\ msg.term = raft[msg.to].ps.current_term
         /\ ~Unneeded(msg, raft[msg.to].ps.log))
        => /\ raft'[msg.to].ps.snapshot = msg.snapshot
           /\ raft'[msg.to].ps.log.entries = <<>>
           /\ raft'[msg.to].ps.log.prev_log_index = msg.last_included_index
           /\ raft'[msg.to].ps.log.prev_log_term = msg.last_included_term
           /\ raft'[msg.to].state_machine = msg.snapshot
           /\ raft'[msg.to].commit_index = msg.last_included_index
           /\ raft'[msg.to].last_applied = msg.last_included_index
           /\ raft'[msg.to].this_term_leader_id = msg.from
           /\ stored'[msg.to] = raft'[msg.to].ps]_vars

\* C34: election start.  A member whose election timer expires raises
\* current_term by exactly one, votes for itself and is candidate; and
\* whenever a RequestVote is sent, the storage adapter of its sender holds
\* the term of the request and the vote of the sender for itself.
C34_ElectionStart ==
    [][/\ \A m \in Members :
            (/\ Running(m)
             /\ raft'[m].mode = "candidate"
             /\ raft'[m].ps.current_term # raft[m].ps.current_term)
            => /\ raft'[m].ps.current_term = raft[m].ps.current_term + 1
               /\ raft'[m].ps.voted_for = m
       /\ \A msg \in msgs' \ msgs :
            msg.type = "RV"
            => /\ stored'[msg.from].current_term = msg.term
               /\ stored'[msg.from].voted_for = msg.from]_vars

\* Member m is a running candidate to whose RequestVote of its term a
\* majority of the voting members of every active configuration (itself
\* included) has replied with a granted vote.
HasMajority(m) ==
    /\ live[m] = "alive"
    /\ raft[m].mode = "candidate"
    /\ Quorum(raft[m], raft[m].votes)

\* C35: a candidate becomes leader of its term if and only if it has
\* collected the granted votes of a majority of every active
\* configuration.  A candidate with these votes becomes leader (unless a
\* higher term or an AppendEntries of its term makes it follower, or it is
\* aborted), and no member becomes leader without them.
C35_MajorityBecomesLeader ==
    /\ \A m \in Members :
            HasMajority(m) ~> (raft[m].mode # "candidate" \/ live[m] # "alive")
    /\ [][\A m \in Members :
            (raft[m].mode # "leader" /\ raft'[m].mode = "leader")
                => Quorum(raft[m], raft[m].votes)]_vars

\* In this step the reply of RequestVote msg returns to the
\* send_request_vote_rpc call of its sender, a running candidate of the
\* term of the request.
Returns(msg) ==
    /\ msg.type = "RV"
    /\ Handles(msg)
    /\ live[msg.from] = "alive"
    /\ Waiting(raft[msg.from], msg)
    /\ msg.to \notin raft[msg.from].replied
    /\ msg.to \in raft'[msg.from].replied

\* C36: a candidate that receives a RequestVote reply whose term is
\* greater than its current_term has that term afterwards, no vote, and is
\* follower.
C36_HigherTermReply ==
    [][\A msg \in msgs :
        (/\ Returns(msg)
         /\ Handle(raft[msg.to], msg).term_out > raft[msg.from].ps.current_term)
        => /\ raft'[msg.from].ps.current_term = Handle(raft[msg.to], msg).term_out
           /\ raft'[msg.from].ps.voted_for = Nil
           /\ raft'[msg.from].mode = "follower"]_vars

\* C37: the sanity guarantees of on_request_vote never fire.  No
\* RequestVote is on its way from a candidate to itself, and no member is
\* ended by guarantee(candidate_id != member_id) or by
\* guarantee(voted_for == member_id).
C37_VoteSanity ==
    /\ \A msg \in msgs : msg.type = "RV" => msg.from # msg.to
    /\ \A m \in Members :
        /\ live[m] # "guarantee(candidate_id != member_id)"
        /\ live[m] # "guarantee(voted_for == member_id)"

\* C38: a candidate that takes an AppendEntries of its current_term
\* becomes follower: it is not ended by the guarantee of become_follower,
\* after the handler it is follower of the same term, and a follower stands
\* again only in a higher term, so it does not become leader of that term.
C38_CandidateStepsDown ==
    [][/\ \A msg \in msgs :
            (/\ msg.type = "AE"
             /\ live[msg.to] = "alive"
             /\ raft[msg.to].mode = "candidate"
             /\ msg.term = raft[msg.to].ps.current_term
             /\ msg \notin msgs'
             /\ raft'[msg.to].session = raft[msg.to].session)
            => /\ live'[msg.to] # "guarantee(mode == follower)"
               /\ Handles(msg)
                    => /\ raft'[msg.to].mode = "follower"
                       /\ raft'[msg.to].ps.current_term = msg.term
       /\ \A m \in Members :
            (/\ Running(m)
             /\ raft[m].mode = "follower"
             /\ raft'[m].mode # "follower")
            => raft'[m].ps.current_term > raft[m].ps.current_term]_vars

\* C39: drain on demotion.  become_follower returns with mode == follower
\* whether leader_coro is still waiting for its RPCs or has finished them
\* all without being interrupted: no member is ended by the
\* guarantee(mode == follower) that closes become_follower.
C39_DrainOnDemotion ==
    \A m \in Members : live[m] # "guarantee(mode == follower)"

\* C40: the setup of the election task runs under the mutex acquisition
\* passed to become_candidate.  No RPC handler of a member runs between
\* the spawning of its leader_coro and the end of the setup, and the setup
\* finds mutex_acq_for_setup held and pulse_when_done_with_setup alive.
C40_SetupUnderMutex ==
    [][/\ \A msg \in msgs : Handles(msg) => ~raft[msg.to].spawned
       /\ \A m \in Members : live'[m] # "leader_coro: mutex_acq_for_setup"]_vars

====
